---- MODULE Spec2Model ----
(***************************************************************************)
(* simulate_cross_layer (src/app.py, lines 26-72) as a state machine.      *)
(*                                                                         *)
(* Real numbers are carried in decimal fixed point:                        *)
(*   rates (capacity, capacity_t, adaptive_bitrate, throughput,            *)
(*   queue_length)                         bits per second, bits           *)
(*   recorded bitrate / throughput         1e-6 Mbps (= bps)               *)
(*   delay                                 milliseconds, truncated         *)
(*   energy                                picojoules, truncated           *)
(*   mse                                   units, truncated                *)
(*   psnr                                  millidecibels, truncated        *)
(*   channel multiplier, link_eff          tenths                          *)
(*   link-loss draw, routing_eff           hundredths                      *)
(* log2 is truncated to tenths, so that capacity is a multiple of 1e5 bps  *)
(* and every later product by 0.8..1.2, 0.9, 0.95 and 0.9 is exact.        *)
(***************************************************************************)
EXTENDS Integers, Sequences, FiniteSets

VARIABLES
    bw, snr_db, pkt_size, bitrate, total_frames,   \* the arguments (line 26)
    capacity, results, queue_length,               \* set before the loop
    t,                                             \* index of the next frame of range(total_frames)
    capacity_t, adaptive_bitrate, cwnd, link_eff,  \* the locals of one iteration
    throughput, delay, energy, mse, psnr,
    pc                                             \* "call", "loop", "returned" or the exception raised

vars == << bw, snr_db, pkt_size, bitrate, total_frames, capacity, results,
           queue_length, t, capacity_t, adaptive_bitrate, cwnd, link_eff,
           throughput, delay, energy, mse, psnr, pc >>

args == << bw, snr_db, pkt_size, bitrate, total_frames >>

\* ---------------------------------------------------------------- bounds
MaxFrames == 3

\* ------------------------------------------------------------ input sets
\* Slider values (lines 16-21); snr_db in multiples of 10 dB, where
\* 10 ** (snr_db / 10) is an integer. The frame count is bounded by
\* MaxFrames (the slider offers 10..200).
BwValues == {1, 20}
SnrDbValues == {0, 30}
PktValues == {1, 10}
BitrateValues == {1, 8, 20}
FrameValues == 1..MaxFrames

\* random.uniform(0.8, 1.2), in tenths
Multipliers == {8, 10, 12}
\* random.random(), in hundredths
LinkDraws == {0, 10, 50}

\* ------------------------------------------------------------- constants
Mega == 1000 * 1000
\* float('inf') as numpy produces it on a division by zero
Inf == 2147483646 + 1
\* power_tx = 0.1 W, in tenths of a watt
power_tx == 1
\* routing_eff = 0.95, in hundredths
routing_eff == 95

Min(a, b) == IF b < a THEN b ELSE a
Max(a, b) == IF b > a THEN b ELSE a

\* ------------------------------------------------------- numeric helpers
RECURSIVE Pow10(_)
Pow10(e) == IF e <= 0 THEN 1 ELSE 10 * Pow10(e - 1)

RECURSIVE FloorLog2(_)
FloorLog2(x) == IF x < 2 THEN 0 ELSE 1 + FloorLog2(x \div 2)

\* x / 2^FloorLog2(x), a number in [1, 2), in units of 2^-14
Mantissa(x) ==
    LET n == FloorLog2(x)
    IN  IF n <= 14 THEN x * 2^(14 - n) ELSE x \div 2^(n - 14)

\* the first k binary digits of log2(y / 2^14), by repeated squaring
FracBits[y \in Nat, k \in Nat] ==
    IF k = 0 THEN 0
    ELSE LET s == (y * y) \div 2^14
         IN  IF s >= 2^15
             THEN 2^(k - 1) + FracBits[s \div 2, k - 1]
             ELSE FracBits[s, k - 1]

\* log2(x) for an integer x >= 1, in units of 1/1024
Log2Fix(x) == FloorLog2(x) * 1024 + FracBits[Mantissa(x), 10]

\* np.log2(x), truncated to tenths
Log2Tenths(x) == (Log2Fix(x) * 10) \div 1024

RECURSIVE IsqrtIter(_, _)
IsqrtIter(n, x) ==
    LET y == (x + n \div x) \div 2
    IN  IF y >= x THEN x ELSE IsqrtIter(n, y)

\* floor(sqrt(n)), by Newton's iteration from a power of two above the root
Isqrt(n) == IF n <= 0 THEN 0 ELSE IsqrtIter(n, 2^(FloorLog2(n) \div 2 + 1))

\* ------------------------------------------------- the per-run constants
\* lines 27-28: snr_lin = 10 ** (snr_db / 10); capacity = bw * 1e6 * log2(1 + snr_lin)
Capacity(b, s) == b * 100000 * Log2Tenths(1 + Pow10(s \div 10))

EmptyResults ==
    [time |-> << >>, bitrate |-> << >>, psnr |-> << >>,
     delay |-> << >>, energy |-> << >>, throughput |-> << >>]

\* --------------------------------------------------- the per-frame steps
\* the +-20% variation taken as random.uniform(-0.2, 0.2)
CapacityTOffset(cap, m) == (cap \div 10) * (m - 10)

\* line 36: capacity * random.uniform(0.8, 1.2)
CapacityT(cap, m) == (cap \div 10) * m

\* max() in the place of min()
AdaptiveBitrateMax(br, capT) == Max(br * Mega, (capT \div 10) * 9)

\* no adaptation: the encoder keeps the target bitrate
AdaptiveBitrateFixed(br, capT) == br * Mega

\* line 37: min(bitrate * 1e6, capacity_t * 0.9)
AdaptiveBitrate(br, capT) == Min(br * Mega, (capT \div 10) * 9)

\* line 40: min(10, max(1, int(capacity_t / (pkt_size * 1024 * 8))))
Cwnd(capT, pkt) == Min(10, Max(1, capT \div (pkt * 1024 * 8)))

\* line 48: 1.0 if random.random() > 0.1 else 0.9
LinkEff(r) == IF r > 10 THEN 10 ELSE 9

\* lines 43-49: adaptive_bitrate * routing_eff, then *= link_eff
Throughput(adaptive, le) == (((adaptive \div 100) * routing_eff) \div 10) * le

\* the increment without its max(0, .)
QueueIncSigned(adaptive, capT) == adaptive - capT

\* line 52: the increment of queue_length
QueueInc(adaptive, capT) == Max(0, adaptive - capT)

\* line 53: queue_length / (capacity_t + 1e-9), in ms
Delay(q, capT) ==
    IF capT = 0 THEN (IF q = 0 THEN 0 ELSE Inf)
    ELSE q \div (capT \div 1000)

\* line 56: power_tx * (pkt_size * 8 / capacity_t), in pJ
Energy(pkt, capT) ==
    IF capT = 0 THEN Inf
    ELSE (power_tx * pkt * 8 * Pow10(7)) \div (capT \div Pow10(4))

\* line 59: max(1, 255**2 / (throughput / (bitrate * 1e6) + 0.1))
\* with throughput / (bitrate * 1e6) + 0.1 scaled by bitrate * 1000; a zero
\* divisor is reached only with a numpy throughput, which yields inf
Mse(thr, br) ==
    LET den == (thr \div 1000) + (br * 1000) \div 10
    IN  IF den = 0 THEN Inf ELSE Max(1, (255 * 255 * (br * 1000)) \div den)

\* 255 * sqrt(mse) in the place of 255 / sqrt(mse)
PsnrProduct(m) ==
    LET root == IF m > Pow10(7) THEN Isqrt(m) * 10 ELSE Isqrt(m * 100)
        ratio == (255 * root * 1024) \div 10
    IN  (20000 * (Log2Fix(ratio) - 10 * 1024)) \div Log2Fix(10)

\* line 60: 20 * log10(255 / sqrt(mse)), in mdB
\* root is sqrt(mse) in tenths, ratio is 255 / sqrt(mse) in units of 1/1024
Psnr(m) ==
    LET root == IF m > Pow10(7) THEN Isqrt(m) * 10 ELSE Isqrt(m * 100)
        ratio == (2550 * 1024) \div root
    IN  IF m = Inf THEN -Inf
        ELSE (20000 * (Log2Fix(ratio) - 10 * 1024)) \div Log2Fix(10)


\* the congestion window fed back into the delivered throughput
LayersCoupled(capT, adaptive, cw, le, q, pkt, br) ==
    LET thr == (Throughput(adaptive, le) * cw) \div 10
        ql == q + QueueInc(adaptive, capT)
        m == Mse(thr, br)
    IN  [throughput |-> thr, queue_length |-> ql, delay |-> Delay(ql, capT),
         energy |-> Energy(pkt, capT), mse |-> m, psnr |-> Psnr(m)]

\* lines 43-60, with every local in scope at line 43 as a parameter
Layers(capT, adaptive, cw, le, q, pkt, br) ==
    LET thr == Throughput(adaptive, le)
        ql == q + QueueInc(adaptive, capT)
        m == Mse(thr, br)
    IN  [throughput |-> thr, queue_length |-> ql, delay |-> Delay(ql, capT),
         energy |-> Energy(pkt, capT), mse |-> m, psnr |-> Psnr(m)]

\* a 1-based time index
StoreResultsOneBased(res, tt, adaptive, ps, dl, en, thr) ==
    [time |-> Append(res.time, tt + 1),
     bitrate |-> Append(res.bitrate, adaptive),
     psnr |-> Append(res.psnr, ps),
     delay |-> Append(res.delay, dl),
     energy |-> Append(res.energy, en),
     throughput |-> Append(res.throughput, thr)]

\* lines 63-68
StoreResults(res, tt, adaptive, ps, dl, en, thr) ==
    [time |-> Append(res.time, tt),
     bitrate |-> Append(res.bitrate, adaptive),
     psnr |-> Append(res.psnr, ps),
     delay |-> Append(res.delay, dl),
     energy |-> Append(res.energy, en),
     throughput |-> Append(res.throughput, thr)]

\* line 40: int() of pkt_size * 1024 * 8 = 0 as a divisor: numpy yields nan
\* (0/0) or inf (x/0), and int() raises on either
RaisedAt40(capT, pkt) ==
    IF pkt # 0 THEN "none"
    ELSE IF capT = 0 THEN "ValueError" ELSE "OverflowError"

\* line 59: throughput / (bitrate * 1e6) raises when both are Python floats
\* (min() at line 37 returned its first argument) and the divisor is 0.0
RaisedAt59(capT, br) ==
    IF br = 0 /\ ~((capT \div 10) * 9 < br * Mega) THEN "ZeroDivisionError"
    ELSE "none"

\* the exception one iteration raises, "none" when it completes
Raised(capT, pkt, br) ==
    IF RaisedAt40(capT, pkt) # "none" THEN RaisedAt40(capT, pkt)
    ELSE RaisedAt59(capT, br)

\* ---------------------------------------------------------------- states
NoLocals ==
    /\ capacity_t = 0 /\ adaptive_bitrate = 0 /\ cwnd = 0 /\ link_eff = 0
    /\ throughput = 0 /\ delay = 0 /\ energy = 0 /\ mse = 0 /\ psnr = 0

\* the call at line 79, with slider values
Init ==
    /\ bw \in BwValues
    /\ snr_db \in SnrDbValues
    /\ pkt_size \in PktValues
    /\ bitrate \in BitrateValues
    /\ total_frames \in FrameValues
    /\ capacity = 0 /\ results = EmptyResults /\ queue_length = 0 /\ t = 0
    /\ NoLocals
    /\ pc = "call"

\* a call with any arguments, the non-positive ones included
InitAny ==
    /\ bw \in BwValues \cup {0}
    /\ snr_db \in SnrDbValues
    /\ pkt_size \in PktValues \cup {0}
    /\ bitrate \in BitrateValues \cup {0}
    /\ total_frames \in FrameValues \cup {-1, 0}
    /\ capacity = 0 /\ results = EmptyResults /\ queue_length = 0 /\ t = 0
    /\ NoLocals
    /\ pc = "call"

\* --------------------------------------------------------------- actions
\* lines 27-32
Call ==
    /\ pc = "call"
    /\ capacity' = Capacity(bw, snr_db)
    /\ results' = EmptyResults
    /\ queue_length' = 0
    /\ t' = 0
    /\ pc' = "loop"
    /\ UNCHANGED << args, capacity_t, adaptive_bitrate, cwnd, link_eff,
                    throughput, delay, energy, mse, psnr >>

\* lines 34-70: one iteration that completes
Frame(m, r) ==
    /\ pc = "loop"
    /\ t < total_frames
    /\ Raised(CapacityT(capacity, m), pkt_size, bitrate) = "none"
    /\ \E capT \in {CapacityT(capacity, m)} :
        \E adaptive \in {AdaptiveBitrate(bitrate, capT)} :
        \E cw \in {Cwnd(capT, pkt_size)} :
        \E out \in {Layers(capT, adaptive, cw, LinkEff(r), queue_length,
                           pkt_size, bitrate)} :
           /\ capacity_t' = capT
           /\ adaptive_bitrate' = adaptive
           /\ cwnd' = cw
           /\ link_eff' = LinkEff(r)
           /\ throughput' = out.throughput
           /\ queue_length' = out.queue_length
           /\ delay' = out.delay
           /\ energy' = out.energy
           /\ mse' = out.mse
           /\ psnr' = out.psnr
           /\ results' = StoreResults(results, t, adaptive, out.psnr, out.delay,
                                      out.energy, out.throughput)
    /\ t' = t + 1
    /\ UNCHANGED << args, capacity, pc >>

\* lines 34-59: one iteration that raises, at line 40 or at line 59; the
\* locals assigned before the raise keep their values, nothing is appended
\* and the function returns nothing
FrameRaises(m, r) ==
    /\ pc = "loop"
    /\ t < total_frames
    /\ \E capT \in {CapacityT(capacity, m)} :
        \E adaptive \in {AdaptiveBitrate(bitrate, capT)} :
           /\ Raised(capT, pkt_size, bitrate) # "none"
           /\ pc' = Raised(capT, pkt_size, bitrate)
           /\ capacity_t' = capT
           /\ adaptive_bitrate' = adaptive
           /\ IF RaisedAt40(capT, pkt_size) # "none"
              THEN UNCHANGED << cwnd, link_eff, throughput, queue_length,
                                delay, energy >>
              ELSE /\ cwnd' = Cwnd(capT, pkt_size)
                   /\ link_eff' = LinkEff(r)
                   /\ throughput' = Throughput(adaptive, LinkEff(r))
                   /\ queue_length' = queue_length + QueueInc(adaptive, capT)
                   /\ delay' = Delay(queue_length + QueueInc(adaptive, capT), capT)
                   /\ energy' = Energy(pkt_size, capT)
    /\ UNCHANGED << args, capacity, results, t, mse, psnr >>

\* line 72, once range(total_frames) is exhausted
Return ==
    /\ pc = "loop"
    /\ t >= total_frames
    /\ pc' = "returned"
    /\ UNCHANGED << args, capacity, results, queue_length, t, capacity_t,
                    adaptive_bitrate, cwnd, link_eff, throughput, delay,
                    energy, mse, psnr >>

Next ==
    \/ Call
    \/ \E m \in Multipliers, r \in LinkDraws : Frame(m, r)
    \/ Return

NextAny ==
    \/ Call
    \/ \E m \in Multipliers, r \in LinkDraws : Frame(m, r)
    \/ \E m \in Multipliers, r \in LinkDraws : FrameRaises(m, r)
    \/ Return

\* calls with valid arguments
Spec == Init /\ [][Next]_vars

\* calls with any arguments
SpecAny == InitAny /\ [][NextAny]_vars

\* ---------------------------------------------------------------- claims
\* the preconditions of section 4.1 of the specification
ValidConfig == bw > 0 /\ pkt_size > 0 /\ bitrate > 0 /\ total_frames > 0

Series == {"time", "bitrate", "psnr", "delay", "energy", "throughput"}

\* the frames recorded so far
Recorded == 1..Len(results.time)

\* the target bitrate exceeds the instantaneous capacity whatever the draw
SustainedShortfall == bitrate * Mega > CapacityT(capacity, 12)

\* 20 * log10(255), in mdB
PsnrCeiling == (20000 * Log2Fix(255)) \div Log2Fix(10)

\* C1: with valid arguments the call never raises (no iteration can, whatever
\* the draw, so the loop always has a next step until the return); after t
\* iterations the six series all have length t and time[i] = i
\* (0-based); what is returned has length total_frames.
C1_SeriesShape ==
    /\ pc \in {"call", "loop", "returned"}
    /\ (pc = "loop" /\ t < total_frames) =>
           \A m \in Multipliers :
               Raised(CapacityT(capacity, m), pkt_size, bitrate) = "none"
    /\ pc # "call" =>
           /\ \A k \in Series : Len(results[k]) = t
           /\ \A i \in Recorded : results.time[i] = i - 1
    /\ pc = "returned" => Len(results.time) = total_frames

C1_Witness ==
    /\ pc = "returned"
    /\ total_frames >= 2
    /\ \A k \in Series : Len(results[k]) = total_frames
    /\ results.time[total_frames] = total_frames - 1

\* C2: a call with a non-positive bandwidth, packet size, target bitrate or
\* frame count fails with InvalidConfiguration before any frame is computed
\* and returns nothing.
C2_InvalidConfigRejected ==
    ~ValidConfig =>
        /\ pc \in {"call", "loop", "InvalidConfiguration"}
        /\ t = 0

C4_QueueMonotone ==
    /\ queue_length = 0
    /\ [][/\ queue_length' >= 0
          /\ queue_length' >= queue_length
          /\ IF t' = t + 1
             THEN queue_length' - queue_length
                      = Max(0, adaptive_bitrate' - capacity_t')
             ELSE queue_length' = queue_length]_vars

C4_Witness ==
    /\ pc = "loop"
    /\ t >= 2
    /\ adaptive_bitrate - capacity_t < 0
    /\ queue_length = 0

\* C5: in every frame of a valid run mse >= 1, and the psnr computed and
\* recorded never exceeds 20 * log10(255).
C5_PsnrBound ==
    t >= 1 =>
        /\ mse >= 1
        /\ psnr <= PsnrCeiling
        /\ \A i \in Recorded : results.psnr[i] <= PsnrCeiling

C5_Witness ==
    /\ t >= 1
    /\ psnr > 0
    /\ results.psnr[t] = psnr
    /\ adaptive_bitrate = bitrate * Mega

\* C7: in every frame adaptive_bitrate is the target or 90% of capacity_t,
\* whichever is smaller, and throughput is 0.95 or 0.855 times
\* adaptive_bitrate; the recorded throughput never exceeds the recorded
\* bitrate, which never exceeds the target.
C7_RateAdaptation ==
    t >= 1 =>
        /\ adaptive_bitrate <= bitrate * Mega
        /\ adaptive_bitrate <= 9 * (capacity_t \div 10)
        /\ adaptive_bitrate \in {bitrate * Mega, 9 * (capacity_t \div 10)}
        /\ link_eff \in {9, 10}
        /\ throughput = (IF link_eff = 10 THEN 950 ELSE 855)
                            * (adaptive_bitrate \div 1000)
        /\ results.bitrate[t] = adaptive_bitrate
        /\ results.throughput[t] = throughput
        /\ \A i \in Recorded :
               /\ results.throughput[i] <= results.bitrate[i]
               /\ results.bitrate[i] <= bitrate * Mega

C7_Witness ==
    /\ t >= 1
    /\ adaptive_bitrate < bitrate * Mega
    /\ link_eff = 9
    /\ throughput = 855 * (adaptive_bitrate \div 1000)

\* C8: when the target bitrate exceeds the instantaneous capacity in every
\* frame, the queue accumulator grows and the recorded delay becomes
\* positive and keeps growing.
C8_ShortfallGrowsQueue ==
    (pc = "returned" /\ SustainedShortfall /\ total_frames >= 2) =>
        /\ queue_length > 0
        /\ results.delay[1] > 0
        /\ results.delay[total_frames] >= results.delay[1]

\* C9: cwnd is floor(capacity_t / (pkt_size * 1024 * 8)) clamped into 1..10,
\* and the values an iteration computes after it (throughput, queue_length,
\* delay, energy, mse, psnr) are the same whatever value cwnd has.
C9_CwndUnused ==
    [][t' = t + 1 =>
        LET bits == pkt_size * 1024 * 8
        IN  /\ cwnd' \in 1..10
            /\ \/ cwnd' = 10 /\ capacity_t' >= 10 * bits
               \/ cwnd' = 1 /\ capacity_t' < 2 * bits
               \/ /\ cwnd' * bits <= capacity_t'
                  /\ capacity_t' < (cwnd' + 1) * bits
            /\ \A c \in 1..10 :
                   Layers(capacity_t', adaptive_bitrate', c, link_eff',
                          queue_length, pkt_size, bitrate)
                       = [throughput |-> throughput',
                          queue_length |-> queue_length',
                          delay |-> delay', energy |-> energy',
                          mse |-> mse', psnr |-> psnr']]_vars

C9_Witness ==
    /\ t >= 1
    /\ cwnd = 9
    /\ capacity_t \div (pkt_size * 1024 * 8) = 9

\* C10: with valid arguments queue_length is 0 after every frame and every
\* recorded delay is 0, however far the target bitrate exceeds the capacity.
C10_QueueAlwaysZero ==
    /\ queue_length = 0
    /\ delay = 0
    /\ \A i \in Recorded : results.delay[i] = 0

C10_Witness ==
    /\ pc = "returned"
    /\ t >= 2
    /\ SustainedShortfall
    /\ bitrate * Mega > 10 * (capacity_t \div 5)
    /\ queue_length = 0

====
